---- MODULE Spec2Model ----
(***************************************************************************)
(* Model of the FRED MCP server: the tool registry (src/src/tools.ts) and  *)
(* the dispatcher (src/src/index.ts).                                      *)
(*                                                                         *)
(* A call is followed through its suspension points: the synchronous part  *)
(* of callTool up to `await fetch`, the settlement of fetch, the           *)
(* settlement of `await response.json()`, and the return of the envelope.  *)
(* Several calls may be in flight at once (the host may dispatch them in   *)
(* parallel); they interleave at the suspension points.                    *)
(***************************************************************************)
EXTENDS Integers, Sequences, FiniteSets, TLC

(***************************************************************************)
(* State.                                                                  *)
(***************************************************************************)
VARIABLES
  apiKey,      \* process.env.FRED_API_KEY
  call,        \* per slot: the call in flight, its locals and its position
  listed,      \* the last answer to a ListTools request
  fetchCount,  \* outbound GETs issued so far
  toolCalls    \* calls so far that named a registered tool

(***************************************************************************)
(* JavaScript / JSON values.  Every value is a record tagged by its type,  *)
(* so that values of different types can be compared.                      *)
(***************************************************************************)
Undefined == [t |-> "undefined"]
Null      == [t |-> "null"]
Num(n)    == [t |-> "number", n |-> n]
Str(s)    == [t |-> "string", s |-> s]
Arr(a)    == [t |-> "array", a |-> a]
Obj(o)    == [t |-> "object", o |-> o]

\* JavaScript truthiness, as tested by `if (args.x)`.
Truthy(v) ==
  CASE v.t = "undefined" -> FALSE
    [] v.t = "null"      -> FALSE
    [] v.t = "number"    -> v.n # 0
    [] v.t = "string"    -> v.s # ""
    [] OTHER             -> TRUE

\* Array.prototype.join on an array of strings.
RECURSIVE Join(_, _)
Join(a, sep) ==
  IF a = <<>> THEN ""
  ELSE IF Len(a) = 1 THEN a[1]
  ELSE a[1] \o sep \o Join(Tail(a), sep)

\* The string a scalar becomes in a query parameter: Number.prototype.toString
\* for numbers, the string itself for strings; URLSearchParams.append turns
\* undefined into the text "undefined".
ToStr(v) ==
  CASE v.t = "number"    -> ToString(v.n)
    [] v.t = "string"    -> v.s
    [] v.t = "undefined" -> "undefined"
    [] v.t = "null"      -> "null"
    [] v.t = "array"     -> Join(v.a, ",")
    [] OTHER             -> "[object Object]"

\* args.x: the property of the argument mapping, undefined when absent.
Get(args, k) == IF k \in DOMAIN args THEN args[k] ELSE Undefined

(***************************************************************************)
(* JSON.stringify(value, null, 2)                                          *)
(***************************************************************************)
Indent == 2

RECURSIVE Spaces(_)
Spaces(n) == IF n = 0 THEN "" ELSE " " \o Spaces(n - 1)

RECURSIVE Stringify(_, _)
RECURSIVE StringifyItems(_, _)
RECURSIVE StringifyMembers(_, _)

StringifyItems(a, depth) ==
  IF Len(a) = 1 THEN Spaces(depth) \o Stringify(a[1], depth)
  ELSE Spaces(depth) \o Stringify(a[1], depth) \o ",\n"
         \o StringifyItems(Tail(a), depth)

StringifyMembers(o, depth) ==
  LET m == Spaces(depth) \o "\"" \o o[1][1] \o "\": " \o Stringify(o[1][2], depth)
  IN  IF Len(o) = 1 THEN m ELSE m \o ",\n" \o StringifyMembers(Tail(o), depth)

\* The text of a JSON value nested `depth` columns deep.
Stringify(v, depth) ==
  CASE v.t = "null"   -> "null"
    [] v.t = "number" -> ToString(v.n)
    [] v.t = "string" -> "\"" \o v.s \o "\""
    [] v.t = "array"  ->
         IF v.a = <<>> THEN "[]"
         ELSE "[\n" \o StringifyItems(v.a, depth + Indent) \o "\n"
                \o Spaces(depth) \o "]"
    [] v.t = "object" ->
         IF v.o = <<>> THEN "{}"
         ELSE "{\n" \o StringifyMembers(v.o, depth + Indent) \o "\n"
                \o Spaces(depth) \o "}"

\* data.field: property access on a decoded body.  Reading a property of
\* null throws a TypeError; of an object without the member, or of any other
\* non-null value, it is undefined.
RECURSIVE Member(_, _)
Member(o, k) ==
  IF o = <<>> THEN Undefined
  ELSE IF o[1][1] = k THEN o[1][2]
  ELSE Member(Tail(o), k)

(***************************************************************************)
(* The tool registry (tools.ts).  A descriptor holds the name and schema   *)
(* that listTools projects and the data its handler is written from: the   *)
(* endpoint, the required argument, the scalar optional arguments and the  *)
(* list-valued arguments the handler READS (in the order of its `if`       *)
(* lines, each with the query parameter it is appended as), and the field  *)
(* of the body it returns.                                                 *)
(***************************************************************************)
BASE_URL == "https://api.stlouisfed.org/fred"

SearchTool ==
  [ name       |-> "search",
    properties |-> <<"searchText", "limit", "orderBy", "sortOrder",
                     "filterVariable", "filterValue", "tagNames",
                     "excludeTagNames">>,
    required   |-> <<"searchText">>,
    description |-> "Search for FRED data series with advanced filtering options",
    path       |-> "/series/search",
    idArg      |-> "searchText",
    idParam    |-> "search_text",
    scalars    |-> << <<"limit", "limit">>,
                      <<"orderBy", "order_by">>,
                      <<"sortOrder", "sort_order">>,
                      <<"filterVariable", "filter_variable">>,
                      <<"filterValue", "filter_value">> >>,
    lists      |-> << <<"tagNames", "tag_names", ";">>,
                      <<"excludeTagNames", "exclude_tag_names", ";">> >>,
    field      |-> "seriess" ]

SeriesTool ==
  [ name       |-> "series",
    properties |-> <<"seriesId", "startDate", "endDate", "sortOrder", "limit",
                     "offset", "frequency", "aggregationMethod", "outputType",
                     "vintageDates">>,
    required   |-> <<"seriesId">>,
    description |-> "Get observations for a specific FRED data series with advanced options",
    path       |-> "/series/observations",
    idArg      |-> "seriesId",
    idParam    |-> "series_id",
    scalars    |-> << <<"startDate", "observation_start">>,
                      <<"endDate", "observation_end">>,
                      <<"sortOrder", "sort_order">>,
                      <<"limit", "limit">>,
                      <<"offset", "offset">>,
                      <<"frequency", "frequency">>,
                      <<"aggregationMethod", "aggregation_method">>,
                      <<"outputType", "output_type">> >>,
    lists      |-> << <<"vintage_dates", "vintage_dates", ",">> >>,
    field      |-> "observations" ]

tools == <<SearchTool, SeriesTool>>

\* tools.find(t => t.name === name): the first descriptor of that name, or
\* undefined (here 0).
FindTool(n) ==
  IF \E i \in 1..Len(tools) : tools[i].name = n
  THEN CHOOSE i \in 1..Len(tools) :
         /\ tools[i].name = n
         /\ \A j \in 1..(i - 1) : tools[j].name # n
  ELSE 0

\* The ListTools handler: name and schema of every descriptor, in order.
ListToolsResult ==
  [i \in 1..Len(tools) |->
     [name        |-> tools[i].name,
      description |-> tools[i].description,
      inputSchema |-> [properties |-> tools[i].properties,
                       required   |-> tools[i].required]]]

(***************************************************************************)
(* The handlers' synchronous part: building the URL.                       *)
(***************************************************************************)
Param(k, v) == <<k, v>>

\* Mutant: the file_type append is forgotten.
BaseParamsNoFileType(tool, args, key) ==
  << Param("api_key", key),
     Param(tool.idParam, ToStr(Get(args, tool.idArg))) >>

\* The three unconditional appends that open every handler.
BaseParams(tool, args, key) ==
  << Param("api_key", key),
     Param(tool.idParam, ToStr(Get(args, tool.idArg))),
     Param("file_type", "json") >>

\* `if (args.x)` guarding the append of a scalar optional argument.
ScalarSupplied(v) == Truthy(v)

\* Mutant: `if (args.xs && args.xs.length)`.
ListSuppliedNonEmpty(v) == Truthy(v) /\ (v.t = "array" => v.a # <<>>)

\* `if (args.xs)` guarding the append of a list-valued argument.
ListSupplied(v) == Truthy(v)

RECURSIVE ScalarParams(_, _)
ScalarParams(scalars, args) ==
  IF scalars = <<>> THEN <<>>
  ELSE LET v == Get(args, scalars[1][1])
       IN  (IF ScalarSupplied(v) THEN <<Param(scalars[1][2], ToStr(v))>> ELSE <<>>)
             \o ScalarParams(Tail(scalars), args)

\* The list-valued appends.  `.join` exists only on arrays: on any other
\* truthy value the call throws a TypeError, and the handler stops there.
RECURSIVE ListParams(_, _)
ListParams(lists, args) ==
  IF lists = <<>> THEN [threw |-> FALSE, params |-> <<>>]
  ELSE LET v == Get(args, lists[1][1])
       IN  IF ~ListSupplied(v) THEN ListParams(Tail(lists), args)
           ELSE IF v.t # "array"
           THEN [threw |-> TRUE,
                 message |-> "args." \o lists[1][1] \o ".join is not a function"]
           ELSE LET rest == ListParams(Tail(lists), args)
                IN  IF rest.threw THEN rest
                    ELSE [threw |-> FALSE,
                          params |-> <<Param(lists[1][2], Join(v.a, lists[1][3]))>>
                                       \o rest.params]

\* The handler up to `fetch(url.toString())`: the URL it would request, or
\* the error thrown before any request is made.
BuildUrl(tool, args, key) ==
  LET ls == ListParams(tool.lists, args)
  IN  IF ls.threw THEN ls
      ELSE [threw |-> FALSE,
            url   |-> [base   |-> BASE_URL,
                       path   |-> tool.path,
                       params |-> BaseParams(tool, args, key)
                                    \o ScalarParams(tool.scalars, args)
                                    \o ls.params]]

\* Mutant: `return data`.
ProjectWholeBody(tool, data) == [threw |-> FALSE, value |-> data]

\* `return data.seriess` / `return data.observations`.
Project(tool, data) ==
  IF data.t = "null"
  THEN [threw |-> TRUE,
        message |-> "Cannot read properties of null (reading '"
                      \o tool.field \o "')"]
  ELSE [threw |-> FALSE,
        value |-> IF data.t = "object" THEN Member(data.o, tool.field)
                  ELSE Undefined]

\* `throw new Error(`FRED API error: ${response.statusText}`)`.
NotOkMessage(statusText) == "FRED API error: " \o statusText

(***************************************************************************)
(* The dispatcher's envelopes (index.ts).                                  *)
(***************************************************************************)
TextBlock(text) == [type |-> "text", text |-> text]

\* Mutant: `isError: true` is forgotten.
UnknownToolResultNoFlag(n) ==
  [content |-> <<TextBlock("Unknown tool: " \o n)>>]

\* No tool of that name.
UnknownToolResult(n) ==
  [content |-> <<TextBlock("Unknown tool: " \o n)>>, isError |-> TRUE]

\* Mutant: the dispatcher numbers its answers with a counter it keeps.
SuccessResultNumbered(result) ==
  [content |-> << TextBlock(ToString(fetchCount) \o ": "
                              \o (IF result.t = "undefined" THEN ""
                                  ELSE Stringify(result, 0))) >>]

\* The handler returned `result`.  JSON.stringify(undefined) is undefined: the
\* block then carries no text.
SuccessResult(result) ==
  [content |-> << IF result.t = "undefined" THEN [type |-> "text"]
                  ELSE TextBlock(Stringify(result, 0)) >>]

\* Mutant: the catch block rethrows.
CatchResultRethrow(message) == [raised |-> TRUE, envelope |-> Undefined]

\* The handler threw or rejected with an Error carrying `message`.
CatchResult(message) ==
  [raised   |-> FALSE,
   envelope |-> [content |-> <<TextBlock("FRED API error: " \o message)>>,
                 isError |-> TRUE]]

(***************************************************************************)
(* Inputs: the requests a caller may send and the outcomes the upstream    *)
(* may produce.                                                            *)
(***************************************************************************)
Slots == {1, 2}

\* Bound on the number of calls that name a registered tool.
MaxCalls == 2

\* `arguments` may be left out of a request; `{}` is the empty mapping.
EmptyArgs == <<>>

SearchRequired == "searchText" :> Str("GDP")
SeriesRequired == "seriesId" :> Str("GDP")

\* One optional argument at a time: every scalar with a truthy value, some
\* also with the falsy one (0, ""), each list empty, non-empty and (against
\* the schema) not a list.
SearchOptions ==
  { <<"limit", Num(0)>>, <<"limit", Num(5)>>,
    <<"orderBy", Str("title")>>,
    <<"sortOrder", Str("desc")>>,
    <<"filterVariable", Str("frequency")>>,
    <<"filterValue", Str("")>>, <<"filterValue", Str("Monthly")>>,
    <<"tagNames", Arr(<<>>)>>, <<"tagNames", Arr(<<"usa", "gdp">>)>>,
    <<"tagNames", Str("usa")>>,
    <<"excludeTagNames", Arr(<<>>)>>,
    <<"excludeTagNames", Arr(<<"nsa", "daily">>)>> }

SeriesOptions ==
  { <<"startDate", Str("2020-01-01")>>,
    <<"endDate", Str("")>>, <<"endDate", Str("2020-12-31")>>,
    <<"sortOrder", Str("asc")>>,
    <<"limit", Num(0)>>, <<"limit", Num(10)>>,
    <<"offset", Num(0)>>, <<"offset", Num(3)>>,
    <<"frequency", Str("m")>>,
    <<"aggregationMethod", Str("avg")>>,
    <<"outputType", Num(2)>>,
    <<"vintageDates", Arr(<<"2020-01-01", "2020-02-01">>)>>,
    <<"vintage_dates", Arr(<<"2020-01-01", "2020-02-01">>)>>,
    <<"vintage_dates", Str("2020-01-01")>> }

SearchArgs ==
  {EmptyArgs, SearchRequired}
    \cup { SearchRequired @@ (o[1] :> o[2]) : o \in SearchOptions }

SeriesArgs ==
  {EmptyArgs, SeriesRequired}
    \cup { SeriesRequired @@ (o[1] :> o[2]) : o \in SeriesOptions }

UnknownNames == {"nonexistent", "Search"}

Requests ==
  [name : {"search"}, arguments : SearchArgs \cup {Undefined}]
    \cup [name : {"series"}, arguments : SeriesArgs \cup {Undefined}]
    \cup [name : UnknownNames, arguments : {EmptyArgs}]

\* What fetch resolves with: a Response with its `ok` flag and status text.
Responses ==
  { [ok |-> TRUE, statusText |-> "OK"],
    [ok |-> FALSE, statusText |-> "Internal Server Error"],
    [ok |-> FALSE, statusText |-> "Not Found"] }

\* fetch rejected: no Response at all.
Rejected == [t |-> "rejected"]

\* What response.json() resolves with.
Bodies ==
  { Null,
    Obj(<< <<"seriess", Arr(<< Obj(<< <<"id", Str("GDP")>> >>) >>)>>,
           <<"count", Num(1)>> >>),
    Obj(<< <<"count", Num(0)>>, <<"observations", Arr(<<>>)>> >>),
    Obj(<< <<"seriess", Arr(<<>>)>>,
           <<"observations",
             Arr(<< Obj(<< <<"date", Str("2020-01-01")>>,
                           <<"value", Str("1.5")>> >>) >>)>> >>),
    Arr(<<>>) }

\* response.json() rejected: the body is not JSON.
Undecodable == [t |-> "undecodable"]

vars == <<apiKey, call, listed, fetchCount, toolCalls>>

Idle ==
  [pc |-> "idle", name |-> "", arguments |-> Undefined, url |-> Undefined,
   response |-> Undefined, body |-> Undefined, envelope |-> Undefined]

\* index.ts refuses to start without a (non-empty) FRED_API_KEY.
Init ==
  /\ apiKey = "abcdef0123456789"
  /\ call = [s \in Slots |-> Idle]
  /\ listed = Undefined
  /\ fetchCount = 0
  /\ toolCalls = 0

\* `request.params.arguments || {}`.
ArgsOrEmpty(a) == IF a = Undefined THEN EmptyArgs ELSE a

\* The catch block of the dispatcher takes over: the call ends with the
\* envelope it builds.
Caught(c, message) ==
  LET r == CatchResult(message)
  IN  [c EXCEPT !.pc = IF r.raised THEN "raised" ELSE "done",
                !.envelope = r.envelope]

ListTools ==
  /\ listed' = ListToolsResult
  /\ UNCHANGED <<apiKey, call, fetchCount, toolCalls>>

\* A CallTool request arrives: lookup, then the handler up to `await fetch`.
CallTool(s, req) ==
  /\ call[s].pc = "idle"
  /\ LET i == FindTool(req.name)
         c == [Idle EXCEPT !.name = req.name, !.arguments = req.arguments]
     IN  IF i = 0
         THEN /\ call' = [call EXCEPT ![s] =
                            [c EXCEPT !.pc = "done",
                                      !.envelope = UnknownToolResult(req.name)]]
              /\ UNCHANGED <<fetchCount, toolCalls>>
         ELSE /\ toolCalls < MaxCalls
              /\ toolCalls' = toolCalls + 1
              /\ LET b == BuildUrl(tools[i], ArgsOrEmpty(req.arguments), apiKey)
                 IN  IF b.threw
                     THEN /\ call' = [call EXCEPT ![s] = Caught(c, b.message)]
                          /\ UNCHANGED fetchCount
                     ELSE /\ call' = [call EXCEPT ![s] =
                                        [c EXCEPT !.pc = "fetch", !.url = b.url]]
                          /\ fetchCount' = fetchCount + 1
  /\ UNCHANGED <<apiKey, listed>>

\* Mutant: a rejected fetch is tried again.
FetchRejectedRetry(s) ==
  /\ call[s].pc = "fetch"
  /\ fetchCount' = fetchCount + 1
  /\ UNCHANGED <<apiKey, call, listed, toolCalls>>

\* fetch rejects (DNS, connection refused, ...): the rejection reaches the
\* dispatcher's catch.
FetchRejected(s) ==
  /\ call[s].pc = "fetch"
  /\ call' = [call EXCEPT ![s] =
                Caught([call[s] EXCEPT !.response = Rejected], "fetch failed")]
  /\ UNCHANGED <<apiKey, listed, fetchCount, toolCalls>>

\* fetch resolves with a Response; a non-ok one makes the handler throw.
FetchResolved(s, resp) ==
  /\ call[s].pc = "fetch"
  /\ LET c == [call[s] EXCEPT !.response = resp]
     IN  call' = [call EXCEPT ![s] =
                    IF ~resp.ok THEN Caught(c, NotOkMessage(resp.statusText))
                    ELSE [c EXCEPT !.pc = "json"]]
  /\ UNCHANGED <<apiKey, listed, fetchCount, toolCalls>>

\* response.json() rejects: the body could not be decoded.
JsonRejected(s) ==
  /\ call[s].pc = "json"
  /\ call' = [call EXCEPT ![s] =
                Caught([call[s] EXCEPT !.body = Undecodable],
                       "Unexpected end of JSON input")]
  /\ UNCHANGED <<apiKey, listed, fetchCount, toolCalls>>

\* response.json() resolves: the handler returns one field of the body and
\* the dispatcher wraps it.
JsonResolved(s, data) ==
  /\ call[s].pc = "json"
  /\ LET c == [call[s] EXCEPT !.body = data]
         r == Project(tools[FindTool(c.name)], data)
     IN  call' = [call EXCEPT ![s] =
                    IF r.threw THEN Caught(c, r.message)
                    ELSE [c EXCEPT !.pc = "done",
                                   !.envelope = SuccessResult(r.value)]]
  /\ UNCHANGED <<apiKey, listed, fetchCount, toolCalls>>

\* The envelope is handed back to the caller; nothing of the call remains.
Return(s) ==
  /\ call[s].pc = "done"
  /\ call' = [call EXCEPT ![s] = Idle]
  /\ UNCHANGED <<apiKey, listed, fetchCount, toolCalls>>

Next ==
  \/ ListTools
  \/ \E s \in Slots, req \in Requests : CallTool(s, req)
  \/ \E s \in Slots : FetchRejected(s)
  \/ \E s \in Slots, resp \in Responses : FetchResolved(s, resp)
  \/ \E s \in Slots : JsonRejected(s)
  \/ \E s \in Slots, data \in Bodies : JsonResolved(s, data)
  \/ \E s \in Slots : Return(s)

Spec == Init /\ [][Next]_vars

(***************************************************************************)
(* Properties.                                                             *)
(***************************************************************************)
RegisteredNames == {"search", "series"}

IsFailure(env) == "isError" \in DOMAIN env /\ env.isError = TRUE

OneTextBlock(env) == Len(env.content) = 1 /\ env.content[1].type = "text"

\* The envelope consists of one text block holding exactly `text`.
HasText(env, text) ==
  /\ OneTextBlock(env)
  /\ "text" \in DOMAIN env.content[1]
  /\ env.content[1].text = text

Supplied(c, k) == c.arguments # Undefined /\ k \in DOMAIN c.arguments

\* The call in slot s issued its request.
Requested(c) == c.url # Undefined

\* The values of query parameter p in the request of call c, in order.
ValuesOf(c, p) ==
  LET ps == c.url.params
      RECURSIVE Pick(_)
      Pick(j) == IF j > Len(ps) THEN <<>>
                 ELSE (IF ps[j][1] = p THEN <<ps[j][2]>> ELSE <<>>) \o Pick(j + 1)
  IN  Pick(1)

\* The upstream answered the call with a non-success status.
NotOk(c) == c.response \in Responses /\ ~c.response.ok

\* C1: when the upstream response has a non-success status with status text
\* S, the call returns a failure envelope whose single text block is exactly
\* "FRED API error: " followed by S (the prefix once).
C1_NotOkTextIsPrefixThenStatusText ==
  \A s \in Slots :
    LET c == call[s]
    IN  (c.pc = "done" /\ NotOk(c)) =>
          /\ IsFailure(c.envelope)
          /\ HasText(c.envelope, "FRED API error: " \o c.response.statusText)

\* The elements of a, in order, with sep between neighbours.
RECURSIVE JoinedWith(_, _)
JoinedWith(a, sep) ==
  IF Len(a) = 0 THEN ""
  ELSE IF Len(a) = 1 THEN a[1]
  ELSE JoinedWith(SubSeq(a, 1, Len(a) - 1), sep) \o sep \o a[Len(a)]

\* C2: a series call that supplies vintageDates as a sequence of date
\* strings sends vintage_dates, the elements joined with "," in order
\* (["2020-01-01","2020-02-01"] gives vintage_dates=2020-01-01,2020-02-01).
C2_VintageDatesSent ==
  \A s \in Slots :
    LET c == call[s]
    IN  ( /\ c.name = "series"
          /\ c.pc # "idle"
          /\ Supplied(c, "vintageDates")
          /\ c.arguments["vintageDates"].t = "array" )
        => /\ Requested(c)
           /\ ValuesOf(c, "vintage_dates")
                = <<JoinedWith(c.arguments["vintageDates"].a, ",")>>
           /\ c.arguments["vintageDates"].a = <<"2020-01-01", "2020-02-01">>
                => ValuesOf(c, "vintage_dates") = <<"2020-01-01,2020-02-01">>

\* The handler of call c failed: it threw before its request, fetch
\* rejected, the status was not a success, the body could not be decoded, or
\* the decoded body was null.
HandlerFailed(c) ==
  /\ c.name \in RegisteredNames
  /\ c.pc = "done"
  /\ \/ ~Requested(c)
     \/ c.response = Rejected
     \/ NotOk(c)
     \/ c.body = Undecodable
     \/ c.body = Null

\* C3: callTool never raises: every call ends by returning an envelope with
\* exactly one text block, every handler failure gives an envelope with the
\* failure flag, and the dispatcher goes on serving: a finished call can be
\* returned and a free slot accepts the next call, whatever else happened.
C3_NeverRaises ==
  \A s \in Slots :
    LET c == call[s]
    IN  /\ c.pc \in {"idle", "fetch", "json", "done"}
        /\ c.pc = "done" => OneTextBlock(c.envelope)
        /\ HandlerFailed(c) => IsFailure(c.envelope)
        /\ c.pc = "done" => ENABLED Return(s)
        /\ c.pc = "idle" =>
             ENABLED CallTool(s, [name |-> "nonexistent", arguments |-> EmptyArgs])
        /\ (c.pc = "idle" /\ toolCalls < MaxCalls) =>
             ENABLED CallTool(s, [name |-> "search", arguments |-> SearchRequired])

\* A call whose fetch was rejected has ended in an envelope, and the other
\* slot has a further call in flight.
C3_Witness ==
  \E s, r \in Slots :
    /\ s # r
    /\ HandlerFailed(call[s])
    /\ call[s].response = Rejected
    /\ call[r].pc = "fetch"

\* C4: a name that is not exactly a registered name gives the failure
\* envelope "Unknown tool: <name>", with no handler run and no request
\* issued, and the call can be returned like any other.
C4_UnknownTool ==
  \A s \in Slots :
    LET c == call[s]
    IN  (c.pc # "idle" /\ c.name \notin RegisteredNames) =>
          /\ c.pc = "done"
          /\ IsFailure(c.envelope)
          /\ HasText(c.envelope, "Unknown tool: " \o c.name)
          /\ c.envelope.content[1].text \in
               {"Unknown tool: nonexistent", "Unknown tool: Search"}
          /\ ~Requested(c)
          /\ c.response = Undefined
          /\ ENABLED Return(s)

\* Both a near-miss name and a plain unknown one were answered, and no
\* request was issued.
C4_Witness ==
  /\ call[1].pc = "done" /\ call[1].name = "Search"
  /\ call[2].pc = "done" /\ call[2].name = "nonexistent"
  /\ fetchCount = 0

\* The scalar optional arguments of each tool and their query parameters.
ScalarArguments(n) ==
  IF n = "search"
  THEN { <<"limit", "limit">>, <<"orderBy", "order_by">>,
         <<"sortOrder", "sort_order">>,
         <<"filterVariable", "filter_variable">>,
         <<"filterValue", "filter_value">> }
  ELSE { <<"startDate", "observation_start">>,
         <<"endDate", "observation_end">>, <<"sortOrder", "sort_order">>,
         <<"limit", "limit">>, <<"offset", "offset">>,
         <<"frequency", "frequency">>,
         <<"aggregationMethod", "aggregation_method">>,
         <<"outputType", "output_type">> }

\* The string representation of a supplied scalar.
Representation(v) == IF v.t = "number" THEN ToString(v.n) ELSE v.s

\* C5: a scalar optional argument's query parameter is omitted if and only
\* if the argument is absent; any supplied value, 0 and "" included, is sent
\* as its string representation.
C5_OmittedIffAbsent ==
  \A s \in Slots :
    LET c == call[s]
    IN  Requested(c) =>
          \A a \in ScalarArguments(c.name) :
            IF Supplied(c, a[1])
            THEN ValuesOf(c, a[2]) = <<Representation(c.arguments[a[1]])>>
            ELSE ValuesOf(c, a[2]) = <<>>

\* The list-valued arguments of search and their query parameters.
TagArguments ==
  { <<"tagNames", "tag_names">>, <<"excludeTagNames", "exclude_tag_names">> }

\* C6: a tag list supplied to search, empty or not, is sent: the parameter
\* is present once, its value the elements joined with ";" in order, which
\* for the empty list is the empty value.
C6_EmptyListIsPresent ==
  \A s \in Slots :
    LET c == call[s]
    IN  (c.name = "search" /\ c.pc # "idle") =>
          \A a \in TagArguments :
            (Supplied(c, a[1]) /\ c.arguments[a[1]].t = "array") =>
              /\ Requested(c)
              /\ ValuesOf(c, a[2]) = <<JoinedWith(c.arguments[a[1]].a, ";")>>
              /\ c.arguments[a[1]].a = <<>> => ValuesOf(c, a[2]) = <<"">>
              /\ c.arguments[a[1]].a = <<"usa", "gdp">>
                   => ValuesOf(c, a[2]) = <<"usa;gdp">>

\* An empty tagNames and an empty excludeTagNames have each been sent.
C6_Witness ==
  /\ Requested(call[1]) /\ Supplied(call[1], "tagNames")
  /\ call[1].arguments["tagNames"] = Arr(<<>>)
  /\ call[1].url.params[4] = <<"tag_names", "">>
  /\ Requested(call[2]) /\ Supplied(call[2], "excludeTagNames")
  /\ call[2].arguments["excludeTagNames"] = Arr(<<>>)
  /\ call[2].url.params[4] = <<"exclude_tag_names", "">>

\* The field each tool returns.
FieldOf(n) == IF n = "search" THEN "seriess" ELSE "observations"

\* The upstream answered with a success status and a body that is JSON.
SuccessWithJson(c) ==
  /\ c.pc = "done"
  /\ c.response \in Responses
  /\ c.response.ok
  /\ c.body \in Bodies

\* The envelope is the success envelope for the named field of the body:
\* no failure flag, one text block, its text the serialization of the field
\* alone, and no text at all when the body has no such field.
PassesFieldThrough(c) ==
  LET v == IF c.body.t = "object" THEN Member(c.body.o, FieldOf(c.name))
           ELSE Undefined
  IN  /\ "isError" \notin DOMAIN c.envelope
      /\ OneTextBlock(c.envelope)
      /\ IF v = Undefined
         THEN "text" \notin DOMAIN c.envelope.content[1]
         ELSE HasText(c.envelope, Stringify(v, 0))
      /\ (c.name = "search" /\ v = Arr(<< Obj(<< <<"id", Str("GDP")>> >>) >>))
           => HasText(c.envelope, "[\n  {\n    \"id\": \"GDP\"\n  }\n]")
      /\ v = Arr(<<>>) => HasText(c.envelope, "[]")

\* C7 as stated: every success response gives the success envelope of the
\* tool's field, also when the field is missing from the body.
C7_SuccessPassesFieldThrough ==
  \A s \in Slots : SuccessWithJson(call[s]) => PassesFieldThrough(call[s])

\* C7 as amended: every success response whose decoded body is not null
\* gives the success envelope of the tool's field, also when the field is
\* missing from the body; a null body gives a failure envelope.
C7_NonNullSuccessPassesFieldThrough ==
  \A s \in Slots :
    LET c == call[s]
    IN  SuccessWithJson(c) =>
          IF c.body = Null THEN IsFailure(c.envelope)
          ELSE PassesFieldThrough(c)

\* A search got a body with its field and one without it, and both calls
\* ended.
C7_Witness ==
  /\ SuccessWithJson(call[1]) /\ call[1].name = "search"
  /\ call[1].body.t = "object"
  /\ Member(call[1].body.o, "seriess") = Arr(<< Obj(<< <<"id", Str("GDP")>> >>) >>)
  /\ SuccessWithJson(call[2]) /\ call[2].name = "search"
  /\ call[2].body = Obj(<< <<"count", Num(0)>>, <<"observations", Arr(<<>>)>> >>)

IdParamOf(n) == IF n = "search" THEN "search_text" ELSE "series_id"
IdArgOf(n) == IF n = "search" THEN "searchText" ELSE "seriesId"

\* C9: every request carries api_key, the configured key, and
\* file_type=json; with only the required argument supplied the query holds
\* exactly the three parameters search_text (or series_id), file_type and
\* api_key.
C9_BaseParameters ==
  \A s \in Slots :
    LET c == call[s]
    IN  Requested(c) =>
          /\ ValuesOf(c, "api_key") = <<apiKey>>
          /\ ValuesOf(c, "file_type") = <<"json">>
          /\ (c.arguments # Undefined /\ DOMAIN c.arguments = {IdArgOf(c.name)}) =>
               /\ Len(c.url.params) = 3
               /\ { c.url.params[j] : j \in 1..3 }
                    = { <<IdParamOf(c.name), c.arguments[IdArgOf(c.name)].s>>,
                        <<"file_type", "json">>,
                        <<"api_key", apiKey>> }
               /\ c.name = "search" =>
                    <<"search_text", "GDP">> \in { c.url.params[j] : j \in 1..3 }

\* search and series have each been requested with the required argument
\* alone.
C9_Witness ==
  /\ Requested(call[1]) /\ call[1].name = "search"
  /\ call[1].arguments = SearchRequired
  /\ Requested(call[2]) /\ call[2].name = "series"
  /\ call[2].arguments = SeriesRequired

\* The slots in which this step starts a call whose name is registered.
Started ==
  { s \in Slots : /\ call[s].pc = "idle"
                  /\ call'[s].pc # "idle"
                  /\ call'[s].name \in RegisteredNames }

\* The arguments each handler joins into one parameter.
ListArgumentsOf(n) ==
  IF n = "search" THEN {"tagNames", "excludeTagNames"} ELSE {"vintage_dates"}

\* The arguments the handler of call c joins are lists, or are absent or
\* falsy.
ListsAreLists(c) ==
  \A k \in ListArgumentsOf(c.name) :
    (Supplied(c, k) /\ Truthy(c.arguments[k])) => c.arguments[k].t = "array"

====
